---- MODULE Spec2Model ----
(***************************************************************************)
(* Model of QtNodes::Node (src/src/Node.cpp): one node of the node-graph   *)
(* editor, its identity, its graphics object, the port entry lists kept in *)
(* its NodeState, and the handlers wired to the data model's signals.      *)
(*                                                                         *)
(* Port indices are 0-based as in the code; the entry list of a port type  *)
(* is a sequence, so the entry of port i is entries[T][i + 1].             *)
(***************************************************************************)
EXTENDS Integers, Sequences, FiniteSets, TLC

\* ---------------------------------------------------------------- bounds
\* Largest number of ports (In and Out together) the data model grows to
\* while its ports and connections are edited.
MaxPorts == 3

\* The same in the runs that also save, restore and drag over the node.
NodePorts == 2

\* Connection objects of the scene that may be attached to the node.
Conns == {"c1", "c2"}

\* The connections of the scene in the runs that also save and restore.
NodeConns == {"c1"}

\* PortType::In and PortType::Out.
PortTypes == {"In", "Out"}

\* PortIndex INVALID: the port index of a connection end that is not set.
INVALID == -1

\* Port indices a connection's far end holds on the node it leads to.
OtherPorts == {1}

\* Values of NodeData the data model hands out.
Data == {"d1", "d2"}

\* QUuid values; NullUuid is the null QUuid an unparsable string yields,
\* FreshUuid the one createUuid() gives this node.
NullUuid == 0
FreshUuid == 1
Uuids == {0, 1, 2}

\* QPointF positions of the graphics object, <<x, y>>; a new graphics
\* object sits at the origin.
Origin == <<0, 0>>
Positions == {<<0, 0>>, <<1, 2>>}

\* JSON objects the data model's save() returns, and the empty JSON object.
ModelObjs == {"m1", "m2"}
EmptyObj == "{}"

\* NodeDataType of a connection being dragged over the node.
DataTypes == {"decimal"}

VARIABLES
  uid,                 \* _uid
  nodeGraphicsObject,  \* _nodeGraphicsObject: NoGraphics, or the object's pos()
  entries,             \* _nodeState.getEntries(T): sequence of connection sets
  nPorts,              \* _nodeDataModel->nPorts(T)
  connNode,            \* Connection::getNode(T): "this", "other" or Null
  portIndex,           \* Connection::getPortIndex(T)
  removed,             \* connections connectionRemoved was emitted for
  reaction,            \* reaction held by _nodeState
  lastOp,              \* the operation that ran last, with its arguments
  trace,               \* calls and emissions made by the last operation
  nullDeref,           \* the last operation used a null graphics object
  crashed,             \* the process died on a null dereference
  beforeAdd            \* the entry lists and port indices as they were when
                       \* the port addition now being undone began

vars == <<uid, nodeGraphicsObject, entries, nPorts, connNode, portIndex,
          removed, reaction, lastOp, trace, nullDeref, crashed, beforeAdd>>

\* A null Node pointer, and the null graphics object pointer.
Null == "nullptr"
NoGraphics == <<>>

\* What a use of pointer ptr does to the process: through a null pointer it
\* either dies there or carries on.
Outcomes(ptr) == IF ptr = NoGraphics THEN {TRUE, FALSE} ELSE {FALSE}

Op(name, args, ret) == [name |-> name, args |-> args, ret |-> ret]

NoRet == <<>>

\* The entry lists and port indices at the start of onPortAdded, kept while
\* the next operation is the onPortRemoved of the same port.
NoSnapshot == [set |-> FALSE, e |-> <<>>, p |-> <<>>]
Snapshot == [set |-> TRUE, e |-> entries, p |-> portIndex]

\* One call or emission: its name, the connection it is made on (or None),
\* the data passed (or None) and the port index passed (or INVALID).
None == "none"
Ev(call, c, d, i) == [call |-> call, c |-> c, d |-> d, i |-> i]
Call(call) == Ev(call, None, None, INVALID)

\* ------------------------------------------------- sequences and orders
\* entries.insert(entries.begin() + k - 1, x)
InsertAt(seq, k, x) ==
  [j \in 1..(Len(seq) + 1) |->
     IF j < k THEN seq[j] ELSE IF j = k THEN x ELSE seq[j - 1]]

\* entries.erase(entries.begin() + k - 1)
RemoveAt(seq, k) ==
  [j \in 1..(Len(seq) - 1) |-> IF j < k THEN seq[j] ELSE seq[j + 1]]

\* Every order in which the connections of the scene may be iterated.
Orders == {o \in [1..Cardinality(Conns) -> Conns] :
             \A c \in Conns : \E j \in DOMAIN o : o[j] = c}

\* The elements of set S in the order ord lists them.
InOrder(S, ord) == SelectSeq(ord, LAMBDA c : c \in S)

\* One order for each way of iterating the elements of S.
OrdersOf(S) ==
  {ord \in Orders :
     ord = CHOOSE o \in Orders : InOrder(S, o) = InOrder(S, ord)}

\* ------------------------------------------------------- Connection side
\* A connection has an In end and an Out end; each is on this node, on
\* another node, or not set.
\* st = [e |-> entry lists, n |-> nodes of the connection ends,
\*       p |-> port indices of the connection ends].
oppositePort(portType) == IF portType = "In" THEN "Out" ELSE "In"

getNode(st, c, portType) == st.n[c][portType]

getPortIndex(st, c, portType) == st.p[c][portType]

\* setNodeToPort(*node, portType, newIndex), node being getNode(portType).
setNodeToPort(st, c, portType, newIndex) ==
  [st EXCEPT !.p[c][portType] = newIndex]

\* The inner loop of insertEntry and eraseEntry over the connections cs of
\* one entry: those with a node on the portType end move by delta.
RECURSIVE moveIndices(_, _, _, _)
moveIndices(st, cs, portType, delta) ==
  IF cs = {} THEN st
  ELSE LET connection == CHOOSE c \in cs : TRUE
           node == getNode(st, connection, portType)
           next == IF node # Null
                   THEN setNodeToPort(st, connection, portType,
                          getPortIndex(st, connection, portType) + delta)
                   ELSE st
       IN moveIndices(next, cs \ {connection}, portType, delta)

\* for (int i = from; i < entries.size(); ++i) over the entries after an
\* insertion or erasure.
RECURSIVE moveSubsequent(_, _, _, _)
moveSubsequent(st, i, portType, delta) ==
  IF i < Len(st.e[portType])
  THEN moveSubsequent(moveIndices(st, st.e[portType][i + 1], portType, delta),
                      i + 1, portType, delta)
  ELSE st

\* insertEntry with the loop started one entry late.
insertEntrySkipsFirst(st, portType, index) ==
  moveSubsequent([st EXCEPT !.e[portType] = InsertAt(@, index + 1, {})],
                 index + 2, portType, 1)

\* ------------------------------------------------------------ insertEntry
insertEntry(st, portType, index) ==
  moveSubsequent([st EXCEPT !.e[portType] = InsertAt(@, index + 1, {})],
                 index + 1, portType, 1)

\* eraseEntry lowering both port indices of the connections it moves.
eraseEntryMovesBothEnds(st, portType, index) ==
  LET erased == [st EXCEPT !.e[portType] = RemoveAt(@, index + 1)]
      moved == UNION {erased.e[portType][j] :
                        j \in (index + 1)..Len(erased.e[portType])}
  IN [erased EXCEPT !.p = [c \in Conns |->
                             IF c \in moved
                             THEN [T \in PortTypes |-> erased.p[c][T] - 1]
                             ELSE erased.p[c]]]

\* eraseEntry with the loop started one entry late.
eraseEntrySkipsFirst(st, portType, index) ==
  moveSubsequent([st EXCEPT !.e[portType] = RemoveAt(@, index + 1)],
                 index + 1, portType, -1)

\* ------------------------------------------------------------- eraseEntry
eraseEntry(st, portType, index) ==
  moveSubsequent([st EXCEPT !.e[portType] = RemoveAt(@, index + 1)],
                 index, portType, -1)

\* The node state the port handlers work on.
nodeState == [e |-> entries, n |-> connNode, p |-> portIndex]

\* ---------------------------------------------------------- updateGraphics
\* The four calls of updateGraphics, three of them through the pointer.
updateGraphicsCalls ==
  << Call("setGeometryChanged"), Call("recalculateSize"), Call("update"),
     Call("moveConnections") >>

\* updateGraphics as the last statement of a handler.
updateGraphics ==
  /\ nullDeref' = (nodeGraphicsObject = NoGraphics)
  /\ crashed' \in Outcomes(nodeGraphicsObject)

\* ------------------------------------------------------------ onPortAdded
onPortAdded(portType, index) ==
  LET st == insertEntry(nodeState, portType, index)
  IN /\ entries' = st.e
     /\ connNode' = st.n
     /\ portIndex' = st.p
     /\ trace' = updateGraphicsCalls
     /\ updateGraphics
     /\ lastOp' = Op("onPortAdded", <<portType, index>>, NoRet)
     /\ UNCHANGED <<uid, nodeGraphicsObject, removed, reaction>>

\* onPortMoved without the insertion at newIndex.
onPortMovedEraseOnly(portType, oldIndex, newIndex) ==
  LET st1 == eraseEntry(nodeState, portType, oldIndex)
  IN /\ entries' = st1.e
     /\ connNode' = st1.n
     /\ portIndex' = st1.p
     /\ trace' = updateGraphicsCalls
     /\ updateGraphics
     /\ lastOp' = Op("onPortMoved", <<portType, oldIndex, newIndex>>, NoRet)
     /\ UNCHANGED <<uid, nodeGraphicsObject, removed, reaction>>

\* ------------------------------------------------------------ onPortMoved
\* The copy `connections` of entries[oldIndex] is taken and not used again.
onPortMoved(portType, oldIndex, newIndex) ==
  LET connections == entries[portType][oldIndex + 1]
      st1 == eraseEntry(nodeState, portType, oldIndex)
      st2 == insertEntry(st1, portType, newIndex)
  IN /\ entries' = st2.e
     /\ connNode' = st2.n
     /\ portIndex' = st2.p
     /\ trace' = updateGraphicsCalls
     /\ updateGraphics
     /\ lastOp' = Op("onPortMoved", <<portType, oldIndex, newIndex>>, NoRet)
     /\ UNCHANGED <<uid, nodeGraphicsObject, removed, reaction>>

\* ---------------------------------------------------------- onPortRemoved
\* What a slot of connectionRemoved does to the node when it deletes the
\* connections D: they leave every entry, and their ends are unset.
deleteFromEntries(st, D) ==
  [e |-> [T \in PortTypes |->
            [j \in 1..Len(st.e[T]) |-> st.e[T][j] \ D]],
   n |-> [c \in Conns |->
            IF c \in D THEN [T \in PortTypes |-> Null] ELSE st.n[c]],
   p |-> [c \in Conns |->
            IF c \in D THEN [T \in PortTypes |-> INVALID] ELSE st.p[c]]]

\* removeLoop reading the entry at its counter i in place of entries[index].
RECURSIVE removeLoopCounterEntry(_, _, _, _, _, _, _)
removeLoopCounterEntry(i, st, emitted, portType, index, ord, D) ==
  IF i < Len(st.e[portType])
  THEN LET connections == InOrder(st.e[portType][i + 1], ord)
           emits == [j \in 1..Len(connections) |->
                       Ev("connectionRemoved", connections[j], None, INVALID)]
           after == deleteFromEntries(st, {connections[j] :
                                             j \in 1..Len(connections)} \cap D)
       IN removeLoopCounterEntry(i + 1, after, emitted \o emits,
                                 portType, index, ord, D)
  ELSE [st |-> st, emitted |-> emitted]

\* The loop of onPortRemoved from counter i on: each pass copies
\* entries[index] and emits connectionRemoved for every copied connection, in
\* iteration order ord; the slot deletes the connections in D when told.
\* Result: the node state and the emissions made.
RECURSIVE removeLoop(_, _, _, _, _, _, _)
removeLoop(i, st, emitted, portType, index, ord, D) ==
  IF i < Len(st.e[portType])
  THEN LET connections == InOrder(st.e[portType][index + 1], ord)
           emits == [j \in 1..Len(connections) |->
                       Ev("connectionRemoved", connections[j], None, INVALID)]
           after == deleteFromEntries(st, {connections[j] :
                                             j \in 1..Len(connections)} \cap D)
       IN removeLoop(i + 1, after, emitted \o emits, portType, index, ord, D)
  ELSE [st |-> st, emitted |-> emitted]

\* onPortRemoved with the loop started at the entry count, as if the model
\* had not yet dropped its port.
onPortRemovedLateCount(portType, index, ord, D) ==
  LET loop == removeLoop(Len(entries[portType]), nodeState, <<>>,
                         portType, index, ord, D)
      st == eraseEntry(loop.st, portType, index)
  IN /\ entries' = st.e
     /\ connNode' = st.n
     /\ portIndex' = st.p
     /\ removed' = removed \cup {loop.emitted[j].c : j \in 1..Len(loop.emitted)}
     /\ trace' = loop.emitted \o <<Call("eraseEntry")>> \o updateGraphicsCalls
     /\ updateGraphics
     /\ lastOp' = Op("onPortRemoved", <<portType, index>>, NoRet)
     /\ UNCHANGED <<uid, nodeGraphicsObject, reaction>>

onPortRemoved(portType, index, ord, D) ==
  LET loop == removeLoop(nPorts'[portType], nodeState, <<>>,
                         portType, index, ord, D)
      st == eraseEntry(loop.st, portType, index)
  IN /\ entries' = st.e
     /\ connNode' = st.n
     /\ portIndex' = st.p
     /\ removed' = removed \cup {loop.emitted[j].c : j \in 1..Len(loop.emitted)}
     /\ trace' = loop.emitted \o <<Call("eraseEntry")>> \o updateGraphicsCalls
     /\ updateGraphics
     /\ lastOp' = Op("onPortRemoved", <<portType, index>>, NoRet)
     /\ UNCHANGED <<uid, nodeGraphicsObject, reaction>>

\* onDataUpdated sending to the connections of every Out port.
onDataUpdatedEveryPort(index, nodeData, ord) ==
  LET connections ==
        InOrder(UNION {entries["Out"][j] : j \in 1..Len(entries["Out"])}, ord)
  IN /\ trace' = <<Ev("outData", None, nodeData, index)>> \o
                 [j \in 1..Len(connections) |->
                    Ev("propagateData", connections[j], nodeData, INVALID)]
     /\ lastOp' = Op("onDataUpdated", <<index>>, NoRet)
     /\ nullDeref' = FALSE
     /\ UNCHANGED <<uid, nodeGraphicsObject, entries, nPorts, connNode,
                    portIndex, removed, reaction, crashed>>

\* ---------------------------------------------------------- onDataUpdated
\* nodeData is what the model's outData(index) returned; connections is the
\* copy _nodeState.connections(PortType::Out, index).
onDataUpdated(index, nodeData, ord) ==
  LET connections == InOrder(entries["Out"][index + 1], ord)
  IN /\ trace' = <<Ev("outData", None, nodeData, index)>> \o
                 [j \in 1..Len(connections) |->
                    Ev("propagateData", connections[j], nodeData, INVALID)]
     /\ lastOp' = Op("onDataUpdated", <<index>>, NoRet)
     /\ nullDeref' = FALSE
     /\ UNCHANGED <<uid, nodeGraphicsObject, entries, nPorts, connNode,
                    portIndex, removed, reaction, crashed>>

\* ---------------------------------------------------------- propagateData
propagateData(nodeData, inPortIndex) ==
  /\ trace' = <<Ev("setInData", None, nodeData, inPortIndex)>> \o
              updateGraphicsCalls
  /\ updateGraphics
  /\ lastOp' = Op("propagateData", <<inPortIndex>>, NoRet)
  /\ UNCHANGED <<uid, nodeGraphicsObject, entries, nPorts, connNode,
                 portIndex, removed, reaction>>

\* ------------------------------------------------------------------ JSON
\* A QJsonObject: the keys it has and their values.  A key it does not have
\* reads as QJsonValue::Undefined, whose toString() is the empty string,
\* whose toObject() is the empty object and whose toDouble() is 0.
Json(has, id, model, x, y) ==
  [has |-> has, id |-> id, model |-> model, x |-> x, y |-> y]

EmptyJson == Json({}, <<>>, EmptyObj, 0, 0)

\* QUuid::toString(): the braced form of the value.
UuidToString(u) == <<"{", u, "}">>

\* QUuid(QString): the value of a well-formed braced string, else null.
UuidFromString(str) ==
  IF Len(str) = 3 /\ str[1] = "{" /\ str[3] = "}" /\ str[2] \in Uuids
  THEN str[2]
  ELSE NullUuid

\* json["id"].toString()
idString(json) == IF "id" \in json.has THEN json.id ELSE <<>>

\* json["model"].toObject()
modelObject(json) == IF "model" \in json.has THEN json.model ELSE EmptyObj

\* The point read with x and y exchanged.
positionPointSwapped(json) ==
  IF "position" \in json.has THEN <<json.y, json.x>> ELSE <<0, 0>>

\* QPointF(positionJson["x"].toDouble(), positionJson["y"].toDouble())
positionPoint(json) ==
  IF "position" \in json.has THEN <<json.x, json.y>> ELSE <<0, 0>>

\* The object save() builds from an id, a model object and a position.
nodeJson(u, m, pos) ==
  Json({"id", "model", "position"}, UuidToString(u), m, pos[1], pos[2])

\* JSON objects restore() is handed: whatever some node saved, such an
\* object with its position or its id taken out, and the empty object.
Jsons ==
  LET saved == {nodeJson(u, m, pos) :
                  u \in Uuids, m \in ModelObjs, pos \in Positions}
  IN saved
       \cup {[j EXCEPT !.has = @ \ {"position"}, !.x = 0, !.y = 0] :
               j \in {nodeJson(2, "m1", Origin)}}
       \cup {[j EXCEPT !.has = @ \ {"id"}, !.id = <<>>] :
               j \in {nodeJson(2, "m2", <<1, 2>>)}}
       \cup {EmptyJson}

\* ------------------------------------------------------------------- save
\* m is what the model's save() returns.  Reading pos() through a null
\* pointer either kills the process or yields an arbitrary position.
save(m) ==
  /\ nullDeref' = (nodeGraphicsObject = NoGraphics)
  /\ crashed' \in Outcomes(nodeGraphicsObject)
  /\ \E pos \in (IF nodeGraphicsObject = NoGraphics THEN Positions
                 ELSE {nodeGraphicsObject}) :
       lastOp' = Op("save", <<>>,
                    IF crashed' THEN EmptyJson ELSE nodeJson(uid, m, pos))
  /\ trace' = <<Ev("model.save", None, m, INVALID)>>
  /\ UNCHANGED <<uid, nodeGraphicsObject, entries, nPorts, connNode,
                 portIndex, removed, reaction>>

\* ---------------------------------------------------------------- restore
\* _uid is assigned first; setPos through a null pointer either kills the
\* process there or goes unnoticed, and then the model's restore is called.
restore(json) ==
  /\ uid' = UuidFromString(idString(json))
  /\ nullDeref' = (nodeGraphicsObject = NoGraphics)
  /\ crashed' \in Outcomes(nodeGraphicsObject)
  /\ nodeGraphicsObject' = IF nodeGraphicsObject = NoGraphics THEN NoGraphics
                           ELSE positionPoint(json)
  /\ trace' = IF crashed' THEN <<>>
              ELSE <<Ev("model.restore", None, modelObject(json), INVALID)>>
  /\ lastOp' = Op("restore", <<json>>, NoRet)
  /\ UNCHANGED <<entries, nPorts, connNode, portIndex, removed, reaction>>

\* ------------------------------------------------- reactToPossibleConnection
\* setReaction(NOT_REACTING) leaves the port type and data type defaulted.
NotReacting == [state |-> "NOT_REACTING", portType |-> "None", dataType |-> ""]

\* The pointer is used by the first statement: a crash there changes nothing.
reactToPossibleConnection(reactingPortType, reactingDataType) ==
  /\ nullDeref' = (nodeGraphicsObject = NoGraphics)
  /\ crashed' \in Outcomes(nodeGraphicsObject)
  /\ reaction' = IF crashed' THEN reaction
                 ELSE [state |-> "REACTING", portType |-> reactingPortType,
                       dataType |-> reactingDataType]
  /\ trace' = IF crashed' THEN <<>>
              ELSE <<Call("sceneTransform"), Call("setDraggingPosition"),
                     Call("update")>>
  /\ lastOp' = Op("reactToPossibleConnection", <<reactingPortType>>, NoRet)
  /\ UNCHANGED <<uid, nodeGraphicsObject, entries, nPorts, connNode,
                 portIndex, removed>>

\* ------------------------------------------------- resetReactionToConnection
resetReactionToConnection ==
  /\ reaction' = NotReacting
  /\ nullDeref' = (nodeGraphicsObject = NoGraphics)
  /\ crashed' \in Outcomes(nodeGraphicsObject)
  /\ trace' = IF crashed' THEN <<>> ELSE <<Call("update")>>
  /\ lastOp' = Op("resetReactionToConnection", <<>>, NoRet)
  /\ UNCHANGED <<uid, nodeGraphicsObject, entries, nPorts, connNode,
                 portIndex, removed>>

\* setGraphicsObject also giving the node a new (null) id.
setGraphicsObjectNewId(graphics) ==
  /\ nodeGraphicsObject' = graphics
  /\ uid' = NullUuid
  /\ trace' = <<Call("recalculateSize")>>
  /\ nullDeref' = FALSE
  /\ lastOp' = Op("setGraphicsObject", <<graphics>>, NoRet)
  /\ UNCHANGED <<entries, nPorts, connNode, portIndex, removed,
                 reaction, crashed>>

\* ------------------------------------------------------- setGraphicsObject
\* graphics is a newly made graphics object, which sits at the origin.
setGraphicsObject(graphics) ==
  /\ nodeGraphicsObject' = graphics
  /\ trace' = <<Call("recalculateSize")>>
  /\ nullDeref' = FALSE
  /\ lastOp' = Op("setGraphicsObject", <<graphics>>, NoRet)
  /\ UNCHANGED <<uid, entries, nPorts, connNode, portIndex, removed,
                 reaction, crashed>>

\* ------------------------------------------------- the scene's connections
\* The scene attaches the free connection c to port index of this node;
\* the far end of c is on port other of another node.
setConnection(portType, index, c, other) ==
  /\ entries' = [entries EXCEPT ![portType][index + 1] = @ \cup {c}]
  /\ connNode' = [connNode EXCEPT ![c] =
                    [T \in PortTypes |-> IF T = portType THEN "this"
                                         ELSE "other"]]
  /\ portIndex' = [portIndex EXCEPT ![c] =
                     [T \in PortTypes |-> IF T = portType THEN index
                                          ELSE other]]
  /\ removed' = removed \ {c}
  /\ trace' = <<>>
  /\ nullDeref' = FALSE
  /\ lastOp' = Op("setConnection", <<portType, index, c>>, NoRet)
  /\ UNCHANGED <<uid, nodeGraphicsObject, nPorts, reaction, crashed>>

\* The scene deletes connection c.
deleteConnection(c) ==
  LET st == deleteFromEntries(nodeState, {c})
  IN /\ entries' = st.e
     /\ connNode' = st.n
     /\ portIndex' = st.p
     /\ removed' = removed \ {c}
     /\ trace' = <<>>
     /\ nullDeref' = FALSE
     /\ lastOp' = Op("deleteConnection", <<c>>, NoRet)
     /\ UNCHANGED <<uid, nodeGraphicsObject, nPorts, reaction, crashed>>

\* ------------------------------------------------------------ construction
\* Node::Node for a data model with at most cap ports: a fresh id, no
\* graphics object, and a NodeState with one empty entry per port of the
\* data model; no connection is attached.
Constructed(cap) ==
  /\ uid = FreshUuid
  /\ nPorts \in {f \in [PortTypes -> 0..cap] : f["In"] + f["Out"] <= cap}
  /\ entries = [T \in PortTypes |-> [j \in 1..nPorts[T] |-> {}]]
  /\ connNode = [c \in Conns |-> [T \in PortTypes |-> Null]]
  /\ portIndex = [c \in Conns |-> [T \in PortTypes |-> INVALID]]
  /\ removed = {}
  /\ reaction = NotReacting
  /\ trace = <<Call("recalculateSize")>>
  /\ beforeAdd = NoSnapshot
  /\ nullDeref = FALSE
  /\ crashed = FALSE

Node(cap) ==
  /\ Constructed(cap)
  /\ nodeGraphicsObject = NoGraphics
  /\ lastOp = Op("Node", <<>>, NoRet)

\* ------------------------------------------------- the data model's signals
\* The model, holding fewer than cap ports, grows by one and emits
\* portAdded(portType, index).
portAdded(cap) ==
  /\ ~crashed
  /\ nPorts["In"] + nPorts["Out"] < cap
  /\ \E portType \in PortTypes :
       \E index \in 0..nPorts[portType] :
         /\ nPorts' = [nPorts EXCEPT ![portType] = @ + 1]
         /\ onPortAdded(portType, index)
         /\ beforeAdd' = Snapshot

\* The model reorders its ports and emits portMoved(portType, old, new).
portMoved ==
  /\ ~crashed
  /\ \E portType \in PortTypes :
       \E oldIndex, newIndex \in 0..(nPorts[portType] - 1) :
         /\ nPorts' = nPorts
         /\ onPortMoved(portType, oldIndex, newIndex)
         /\ beforeAdd' = NoSnapshot

\* The model drops a port and emits portRemoved(portType, index); the slot
\* of connectionRemoved either deletes the port's connections as it is told
\* of them or leaves them alone.
portRemoved ==
  /\ ~crashed
  /\ \E portType \in PortTypes :
       \E index \in 0..(nPorts[portType] - 1) :
         /\ nPorts' = [nPorts EXCEPT ![portType] = @ - 1]
         /\ \E ord \in OrdersOf(entries[portType][index + 1]),
                 D \in {{}, entries[portType][index + 1]} :
              onPortRemoved(portType, index, ord, D)
         /\ beforeAdd' = IF /\ lastOp.name = "onPortAdded"
                            /\ lastOp.args = <<portType, index>>
                         THEN beforeAdd
                         ELSE NoSnapshot

\* The model emits dataUpdated(index).
dataUpdated ==
  /\ ~crashed
  /\ \E index \in 0..(nPorts["Out"] - 1), nodeData \in Data :
       \E ord \in OrdersOf(entries["Out"][index + 1]) :
         onDataUpdated(index, nodeData, ord)
  /\ beforeAdd' = NoSnapshot

\* A connection ending at In port inPortIndex delivers data to the node.
dataArrives ==
  /\ ~crashed
  /\ \E nodeData \in Data, inPortIndex \in 0..(nPorts["In"] - 1) :
       /\ nPorts' = nPorts
       /\ propagateData(nodeData, inPortIndex)
  /\ beforeAdd' = NoSnapshot

\* ------------------------------------------------------- the scene's calls
\* The scene attaches one of the connections cs that is not yet attached.
sceneConnects(cs) ==
  /\ ~crashed
  /\ \E portType \in PortTypes, c \in cs :
       /\ \A T \in PortTypes : connNode[c][T] = Null
       /\ \E index \in 0..(nPorts[portType] - 1), other \in OtherPorts :
            setConnection(portType, index, c, other)
  /\ beforeAdd' = NoSnapshot

sceneDisconnects ==
  /\ ~crashed
  /\ \E c \in Conns :
       /\ \E T \in PortTypes : connNode[c][T] # Null
       /\ deleteConnection(c)
  /\ beforeAdd' = NoSnapshot

scenePlaces ==
  /\ ~crashed
  /\ setGraphicsObject(Origin)
  /\ beforeAdd' = NoSnapshot

sceneSaves ==
  /\ ~crashed
  /\ \E m \in ModelObjs : save(m)
  /\ beforeAdd' = NoSnapshot

sceneRestores ==
  /\ ~crashed
  /\ \E json \in Jsons : restore(json)
  /\ beforeAdd' = NoSnapshot

sceneDragsOver ==
  /\ ~crashed
  /\ \E T \in PortTypes, dt \in DataTypes : reactToPossibleConnection(T, dt)
  /\ beforeAdd' = NoSnapshot

sceneDragEnds ==
  /\ ~crashed
  /\ resetReactionToConnection
  /\ beforeAdd' = NoSnapshot

\* ----------------------------------------------------------- specifications
\* The node from its construction on, with everything that can be done to
\* it, in a scene of the connections NodeConns.
Init == Node(NodePorts)

Next ==
  \/ scenePlaces
  \/ sceneSaves
  \/ sceneRestores
  \/ sceneDragsOver
  \/ sceneDragEnds
  \/ portAdded(NodePorts)
  \/ portMoved
  \/ portRemoved
  \/ dataUpdated
  \/ dataArrives
  \/ sceneConnects(NodeConns)
  \/ sceneDisconnects

Spec == Init /\ [][Next]_vars

\* The node once the scene has made it and given it its graphics object,
\* while the data model edits its ports and the scene edits its connections.
InitPorts ==
  /\ Constructed(MaxPorts)
  /\ nodeGraphicsObject = Origin
  /\ lastOp = Op("setGraphicsObject", <<Origin>>, NoRet)

NextPorts ==
  \/ portAdded(MaxPorts)
  \/ portMoved
  \/ portRemoved
  \/ sceneConnects(Conns)
  \/ sceneDisconnects

SpecPorts == InitPorts /\ [][NextPorts]_vars

\* The same, with the data model also announcing new data.
NextData ==
  \/ NextPorts
  \/ dataUpdated

SpecData == InitPorts /\ [][NextData]_vars

\* =================================================================== claims
\* What the last operation was, for the properties below.
IsOp(op, name) == op.name = name

PortOps == {"onPortAdded", "onPortMoved", "onPortRemoved"}

\* The connections connectionRemoved was emitted for in a trace, and how
\* often it was emitted for c.
Emissions(tr, c) ==
  Cardinality({j \in 1..Len(tr) :
                 tr[j].call = "connectionRemoved" /\ tr[j].c = c})

\* How often propagateData was called on c in a trace.
Deliveries(tr, c) ==
  Cardinality({j \in 1..Len(tr) :
                 tr[j].call = "propagateData" /\ tr[j].c = c})

\* C1: every connection stored at position i of the entry list of a port
\* type is on this node at that end and reports port index i for it, after
\* any sequence of port additions, moves and removals.
C1_PortIndexConsistent ==
  \A T \in PortTypes :
    \A j \in 1..Len(entries[T]) :
      \A c \in entries[T][j] :
        connNode[c][T] = "this" /\ portIndex[c][T] = j - 1

\* A port was moved and a connection sits on a port other than the first.
C1_Witness ==
  /\ IsOp(lastOp, "onPortMoved")
  /\ \E T \in PortTypes : \E j \in 2..Len(entries[T]) : entries[T][j] # {}

C3_DataRelayed ==
  IsOp(lastOp, "onDataUpdated") =>
    LET index == lastOp.args[1]
        reads == {j \in 1..Len(trace) : trace[j].call = "outData"}
    IN /\ reads = {1}
       /\ trace[1].i = index
       /\ \A c \in Conns :
            Deliveries(trace, c) =
              IF c \in entries["Out"][index + 1] THEN 1 ELSE 0
       /\ \A j \in 2..Len(trace) :
            trace[j].call = "propagateData" /\ trace[j].d = trace[1].d

\* Data went to a connection on one Out port while another connection sat
\* on a different Out port.
C3_Witness ==
  /\ IsOp(lastOp, "onDataUpdated")
  /\ \E c \in Conns : Deliveries(trace, c) = 1
  /\ \E c \in Conns :
       /\ Deliveries(trace, c) = 0
       /\ connNode[c]["Out"] = "this"
       /\ c \in entries["Out"][portIndex[c]["Out"] + 1]

\* C4: restoring, into a node with a graphics object, the JSON a node with
\* id u, model object m and position pos saved sets the id to u and the
\* position to pos and hands m to the data model's restore; so restoring the
\* node's own save changes neither id nor position.  save returns that JSON
\* of the node and changes nothing of the node.
C4_SaveRestoreRoundTrip ==
  [][/\ \A u \in Uuids, m \in ModelObjs, pos \in Positions :
          ( /\ IsOp(lastOp', "restore")
            /\ nodeGraphicsObject # NoGraphics
            /\ lastOp'.args[1] = nodeJson(u, m, pos) )
          => ( /\ uid' = u
               /\ nodeGraphicsObject' = pos
               /\ trace' = <<Ev("model.restore", None, m, INVALID)>>
               /\ ( (u = uid /\ pos = nodeGraphicsObject)
                    => UNCHANGED <<uid, nodeGraphicsObject>> ) )
     /\ ( IsOp(lastOp', "save") /\ nodeGraphicsObject # NoGraphics )
          => ( /\ lastOp'.ret =
                    nodeJson(uid, trace'[1].d, nodeGraphicsObject)
               /\ UNCHANGED <<uid, nodeGraphicsObject, entries, nPorts,
                              connNode, portIndex, removed, reaction>> )
    ]_vars

\* The JSON of another node, with another id and position, was restored.
C4_Witness ==
  /\ IsOp(lastOp, "restore")
  /\ lastOp.args[1] = nodeJson(2, "m2", <<1, 2>>)
  /\ uid = 2
  /\ nodeGraphicsObject = <<1, 2>>

\* C5: the id is changed by restore only; every other operation leaves it
\* as it was.
C5_IdChangedOnlyByRestore ==
  [][uid' # uid => IsOp(lastOp', "restore")]_vars

\* A port was removed from a node that had been restored with another id.
C5_Witness ==
  /\ IsOp(lastOp, "onPortRemoved")
  /\ uid = 2
  /\ removed # {}

\* C6: onPortMoved(portType, oldIndex, newIndex) leaves the connections of
\* port oldIndex at position newIndex of the entry list, each reporting port
\* index newIndex.
C6_MovedWithConnections ==
  [][IsOp(lastOp', "onPortMoved") =>
       LET T == lastOp'.args[1]
           oldIndex == lastOp'.args[2]
           newIndex == lastOp'.args[3]
       IN /\ entries'[T][newIndex + 1] = entries[T][oldIndex + 1]
          /\ \A c \in entries[T][oldIndex + 1] :
               portIndex'[c][T] = newIndex]_vars

\* C7: a connection connectionRemoved was not emitted for, and that names
\* this node as its end for port type T with port index i, is in the entry
\* list of T at position i.
C7_NoDanglingConnection ==
  \A c \in Conns \ removed :
    \A T \in PortTypes :
      connNode[c][T] = "this" =>
        /\ portIndex[c][T] \in 0..(Len(entries[T]) - 1)
        /\ c \in entries[T][portIndex[c][T] + 1]

\* C8: no operation uses the graphics object while it is unset.
C8_GraphicsSetWhenUsed == nullDeref = FALSE

\* C9: after each port handler the entry list of the port type it was
\* called for has as many elements as the model has ports of that type, and
\* the entry list of the other port type has kept its length.
C9_EntryCountTracksPorts ==
  [][lastOp'.name \in PortOps =>
       LET T == lastOp'.args[1]
           other == oppositePort(T)
       IN /\ Len(entries[T]) = nPorts[T]
          /\ Len(entries'[T]) = nPorts'[T]
          /\ Len(entries'[other]) = Len(entries[other])
          /\ Len(entries'[other]) = nPorts'[other]]_vars

\* A port was moved in a node that has ports of both types.
C9_Witness ==
  /\ IsOp(lastOp, "onPortMoved")
  /\ \A T \in PortTypes : nPorts[T] > 0

\* C10: insertEntry(portType, index), run by onPortAdded: the entry list
\* grows by one, the new entry at index is empty, every entry formerly at
\* j >= index is at j + 1 with the same connections, each with its port
\* index raised by one, and the entries before index, their connections'
\* port indices and the other entry list are unchanged.
C10_InsertEntryShifts ==
  [][IsOp(lastOp', "onPortAdded") =>
       LET T == lastOp'.args[1]
           index == lastOp'.args[2]
           size == Len(entries[T])
       IN /\ index \in 0..size
          /\ Len(entries'[T]) = size + 1
          /\ entries'[T][index + 1] = {}
          /\ \A j \in index..(size - 1) :
               /\ entries'[T][j + 2] = entries[T][j + 1]
               /\ \A c \in entries[T][j + 1] :
                    portIndex'[c][T] = portIndex[c][T] + 1
          /\ \A j \in 0..(index - 1) :
               /\ entries'[T][j + 1] = entries[T][j + 1]
               /\ \A c \in entries[T][j + 1] :
                    portIndex'[c][T] = portIndex[c][T]
          /\ entries'[oppositePort(T)] = entries[oppositePort(T)]]_vars

\* A port was added between two ports that each hold a connection.
C10_Witness ==
  /\ IsOp(lastOp, "onPortAdded")
  /\ lastOp.args[2] = 1
  /\ LET T == lastOp.args[1]
     IN /\ Len(entries[T]) = 3
        /\ entries[T][1] # {}
        /\ entries[T][3] # {}

\* C11: eraseEntry(portType, index) with 0 <= index < size, as onPortRemoved
\* calls it: the entry list of portType is one shorter, every entry that was
\* after index is one place lower with the same connections, each of them
\* with its port index for portType lowered by one and not below 0, and the
\* entries before index, their connections' port indices, the port index
\* that the connections of all these entries hold for the opposite port type
\* and the entry list of the other port type are unchanged.
C11_EraseEntryShifts ==
  [][IsOp(lastOp', "onPortRemoved") =>
       LET T == lastOp'.args[1]
           index == lastOp'.args[2]
           size == Len(entries[T])
       IN /\ index \in 0..(size - 1)
          /\ Len(entries'[T]) = size - 1
          /\ \A j \in (index + 1)..(size - 1) :
               /\ entries'[T][j] = entries[T][j + 1]
               /\ \A c \in entries[T][j + 1] :
                    /\ portIndex'[c][T] = portIndex[c][T] - 1
                    /\ portIndex'[c][T] >= 0
                    /\ portIndex'[c][oppositePort(T)] =
                         portIndex[c][oppositePort(T)]
          /\ \A j \in 0..(index - 1) :
               /\ entries'[T][j + 1] = entries[T][j + 1]
               /\ \A c \in entries[T][j + 1] : portIndex'[c] = portIndex[c]
          /\ entries'[oppositePort(T)] = entries[oppositePort(T)]]_vars

\* The middle one of three ports was removed, and the ports on either side
\* of it each hold a connection.
C11_Witness ==
  /\ IsOp(lastOp, "onPortRemoved")
  /\ lastOp.args[2] = 1
  /\ LET T == lastOp.args[1]
     IN /\ Len(entries[T]) = 2
        /\ entries[T][1] # {}
        /\ entries[T][2] # {}

\* C12: when onPortAdded(T, i) is followed at once by onPortRemoved(T, i),
\* the removal emits connectionRemoved for no connection, and the entry
\* lists of both port types and every connection's port indices are what
\* they were before the two calls.
C12_AddRemoveRoundTrip ==
  (IsOp(lastOp, "onPortRemoved") /\ beforeAdd.set) =>
    /\ \A c \in Conns : Emissions(trace, c) = 0
    /\ entries = beforeAdd.e
    /\ portIndex = beforeAdd.p

\* A port was added in front of two ports that each hold a connection, and
\* removed again at once.
C12_Witness ==
  /\ IsOp(lastOp, "onPortRemoved")
  /\ beforeAdd.set
  /\ lastOp.args[2] = 0
  /\ LET T == lastOp.args[1]
     IN /\ Len(entries[T]) = 2
        /\ entries[T][1] # {}
        /\ entries[T][2] # {}

====
